---- MODULE Spec2Model ----
(***************************************************************************)
(* A model of the SIF decoder of sif_tools: the header parser `inspect`,   *)
(* the pixel decoder `parser` and the calibration resolver                 *)
(* `extract_calibration`.                                                   *)
(*                                                                          *)
(* A file is a sequence of bytes (integers 0..255).  The stream position   *)
(* `pos` is what fp.tell() returns: the number of bytes before the cursor. *)
(* A Python str is modelled as the sequence of its code points, a Python   *)
(* bytes object as the sequence of its bytes.                               *)
(***************************************************************************)
EXTENDS Integers, Sequences, FiniteSets, TLC

(***************************************************************************)
(* Characters and literals of the source.                                   *)
(***************************************************************************)
SP == 32
NL == 10

\* _MAGIC = 'Andor Technology Multi-Channel File\n'
MAGIC == <<65, 110, 100, 111, 114, 32, 84, 101, 99, 104, 110, 111, 108, 111, 103,
           121, 32, 77, 117, 108, 116, 105, 45, 67, 104, 97, 110, 110, 101, 108,
           32, 70, 105, 108, 101, 10>>

\* 'Mechelle'
Mechelle == <<77, 101, 99, 104, 101, 108, 108, 101>>

\* b'Calibration data for'
CalPrefix == <<67, 97, 108, 105, 98, 114, 97, 116, 105, 111, 110, 32, 100, 97, 116,
               97, 32, 102, 111, 114>>

\* 'sif version not checked yet'
Sentinel == <<115, 105, 102, 32, 118, 101, 114, 115, 105, 111, 110, 32, 110, 111,
              116, 32, 99, 104, 101, 99, 107, 101, 100, 32, 121, 101, 116>>

Min(a, b) == IF a <= b THEN a ELSE b
Max(a, b) == IF a >= b THEN a ELSE b

\* F(v), with v evaluated once: x = v; F(x)
With(v, F(_)) == CHOOSE y \in {F(x) : x \in {v}} : TRUE

(***************************************************************************)
(* Python built-ins used by the parser.                                     *)
(***************************************************************************)
\* bytes.strip() / bytes.split(): ASCII whitespace
BytesWS == {9, 10, 11, 12, 13, 32}
\* str.strip() / int(str) / float(str): the code points with str.isspace()
StrWS == {9, 10, 11, 12, 13, 28, 29, 30, 31, 32, 133, 160, 5760, 8232, 8233, 8239,
          8287, 12288} \cup 8192..8202

\* w.strip(): w without its leading and trailing characters in ws
Strip(w, ws) ==
    With({k \in 1..Len(w) : w[k] \notin ws},
         LAMBDA keep :
            IF keep = {} THEN <<>>
            ELSE SubSeq(w, CHOOSE a \in keep : \A k \in keep : a <= k,
                           CHOOSE b \in keep : \A k \in keep : b >= k))

\* the last index of the run of bytes outside seps that starts at w[k]
RECURSIVE RunEnd(_, _, _)
RunEnd(w, k, seps) ==
    IF k + 1 <= Len(w) /\ w[k + 1] \notin seps THEN RunEnd(w, k + 1, seps) ELSE k

\* w.split(): the maximal runs of non-whitespace bytes, from index k on
RECURSIVE SplitFrom(_, _)
SplitFrom(w, k) ==
    IF k > Len(w) THEN <<>>
    ELSE IF w[k] \in BytesWS THEN SplitFrom(w, k + 1)
    ELSE With(RunEnd(w, k, BytesWS),
              LAMBDA e : <<SubSeq(w, k, e)>> \o SplitFrom(w, e + 1))

Split(w) == SplitFrom(w, 1)

\* w.split(sep) for a one-byte separator, from index k on: the pieces
\* between separators, empty pieces included, always at least one piece
RECURSIVE SplitOnFrom(_, _, _)
SplitOnFrom(w, sep, k) ==
    IF k > Len(w) THEN <<<<>>>>
    ELSE IF w[k] = sep THEN <<<<>>>> \o SplitOnFrom(w, sep, k + 1)
    ELSE With(RunEnd(w, k, {sep}),
              LAMBDA e : IF e = Len(w) THEN <<SubSeq(w, k, e)>>
                         ELSE <<SubSeq(w, k, e)>> \o SplitOnFrom(w, sep, e + 2))

SplitOn(w, sep) == SplitOnFrom(w, sep, 1)

\* `needle in hay` for sequences
Contains(hay, needle) ==
    \E k \in 0..(Len(hay) - Len(needle)) :
        SubSeq(hay, k + 1, k + Len(needle)) = needle

IsDigit(c) == c \in 48..57

\* the value of the decimal digits of w, underscores skipped
RECURSIVE DigitsValue(_, _, _)
DigitsValue(w, k, acc) ==
    IF k > Len(w) THEN acc
    ELSE IF w[k] = 95 THEN DigitsValue(w, k + 1, acc)
    ELSE DigitsValue(w, k + 1, 10 * acc + (w[k] - 48))

\* digit (["_"] digit)*
IsDigitRun(w) ==
    /\ w # <<>>
    /\ \A k \in 1..Len(w) : IsDigit(w[k]) \/ w[k] = 95
    /\ IsDigit(w[1]) /\ IsDigit(w[Len(w)])
    /\ \A k \in 1..(Len(w) - 1) : ~(w[k] = 95 /\ w[k + 1] = 95)

\* s without its sign
Unsigned(s) == IF s # <<>> /\ s[1] \in {43, 45} THEN SubSeq(s, 2, Len(s)) ELSE s

\* -1 when s starts with '-', else 1
Sign(s) == IF s # <<>> /\ s[1] = 45 THEN 0 - 1 ELSE 1

\* int(w) for the decimal literals: ws is StrWS for a str and BytesWS for a
\* bytes object; ok = FALSE is ValueError
ParseInt(w, ws) ==
    With(Strip(w, ws),
         LAMBDA s :
            IF IsDigitRun(Unsigned(s))
            THEN [ok |-> TRUE, v |-> Sign(s) * DigitsValue(Unsigned(s), 1, 0)]
            ELSE [ok |-> FALSE, v |-> 0])

(***************************************************************************)
(* A Python float is modelled as the decimal n / 10^d, with d minimal, for  *)
(* the literals  [sign] digits [ "." digits ]  and  [sign] "." digits.      *)
(***************************************************************************)
RECURSIVE Pow(_, _)
Pow(b, e) == IF e <= 0 THEN 1 ELSE b * Pow(b, e - 1)

\* n / 10^d with the trailing zeros of n cancelled
RECURSIVE Norm(_, _)
Norm(n, d) == IF d > 0 /\ n % 10 = 0 THEN Norm(n \div 10, d - 1) ELSE [n |-> n, d |-> d]

FInt(n) == [n |-> n, d |-> 0]
FAdd(x, y) ==
    Norm(x.n * Pow(10, Max(x.d, y.d) - x.d) + y.n * Pow(10, Max(x.d, y.d) - y.d),
         Max(x.d, y.d))
FMul(x, y) == Norm(x.n * y.n, x.d + y.d)

\* the index of the first c in w, 0 when there is none
IndexOf(w, c) == IF \E k \in 1..Len(w) : w[k] = c
                 THEN CHOOSE k \in 1..Len(w) : w[k] = c /\ \A j \in 1..(k - 1) : w[j] # c
                 ELSE 0

\* the float written as the digit runs ip "." fp, times sign
Decimal(sign, ip, fp) ==
    IF /\ ip \o fp # <<>>
       /\ ip = <<>> \/ IsDigitRun(ip)
       /\ fp = <<>> \/ IsDigitRun(fp)
    THEN [ok |-> TRUE,
          v |-> Norm(sign * DigitsValue(ip \o fp, 1, 0), Len(SelectSeq(fp, IsDigit)))]
    ELSE [ok |-> FALSE, v |-> FInt(0)]

\* float(w), with ws as for ParseInt; ok = FALSE is ValueError
ParseFloat(w, ws) ==
    With(Strip(w, ws),
         LAMBDA s :
            With(IndexOf(Unsigned(s), 46),
                 LAMBDA dot :
                    IF dot = 0 THEN Decimal(Sign(s), Unsigned(s), <<>>)
                    ELSE Decimal(Sign(s), SubSeq(Unsigned(s), 1, dot - 1),
                                 SubSeq(Unsigned(s), dot + 1, Len(Unsigned(s))))))

\* int(a / b): true division, then truncation toward zero (b # 0)
TruncDiv(a, b) ==
    IF (a < 0) = (b < 0)
    THEN (IF a < 0 THEN 0 - a ELSE a) \div (IF b < 0 THEN 0 - b ELSE b)
    ELSE 0 - ((IF a < 0 THEN 0 - a ELSE a) \div (IF b < 0 THEN 0 - b ELSE b))

(***************************************************************************)
(* bytes.decode('utf-8'): the code points of w, or UnicodeDecodeError.      *)
(***************************************************************************)
IsCont(w, k) == k <= Len(w) /\ w[k] \in 128..191

\* the number of bytes of the sequence starting at w[k]; 0 when it is invalid
Utf8Width(w, k) ==
    IF w[k] < 128 THEN 1
    ELSE IF w[k] \in 194..223 /\ IsCont(w, k + 1) THEN 2
    ELSE IF /\ w[k] \in 224..239 /\ IsCont(w, k + 1) /\ IsCont(w, k + 2)
            /\ (w[k] = 224 => w[k + 1] >= 160) /\ (w[k] = 237 => w[k + 1] <= 159) THEN 3
    ELSE IF /\ w[k] \in 240..244 /\ IsCont(w, k + 1) /\ IsCont(w, k + 2)
            /\ IsCont(w, k + 3)
            /\ (w[k] = 240 => w[k + 1] >= 144) /\ (w[k] = 244 => w[k + 1] <= 143) THEN 4
    ELSE 0

Utf8Point(w, k, n) ==
    IF n = 1 THEN w[k]
    ELSE IF n = 2 THEN (w[k] - 192) * 64 + (w[k + 1] - 128)
    ELSE IF n = 3 THEN (w[k] - 224) * 4096 + (w[k + 1] - 128) * 64 + (w[k + 2] - 128)
    ELSE (w[k] - 240) * 262144 + (w[k + 1] - 128) * 4096
         + (w[k + 2] - 128) * 64 + (w[k + 3] - 128)

\* the decoding of w from index k on, appended to acc; n is the width at k
RECURSIVE Utf8Decode(_, _, _, _)
Utf8Decode(w, k, n, acc) ==
    IF k > Len(w) THEN [ok |-> TRUE, s |-> acc]
    ELSE IF n = 0 THEN [ok |-> FALSE, s |-> acc]
    ELSE Utf8Decode(w, k + n, IF k + n > Len(w) THEN 0 ELSE Utf8Width(w, k + n),
                    Append(acc, Utf8Point(w, k, n)))

\* _to_string(c) for a bytes object c
to_string(c) == Utf8Decode(c, 1, IF c = <<>> THEN 0 ELSE Utf8Width(c, 1), <<>>)

(***************************************************************************)
(* The file object: fp.read(n), fp.readline(), on file f at position p.     *)
(***************************************************************************)
\* the position after fp.read(n): at most n bytes further, everything up to
\* the end when n < 0
ReadEnd(f, p, n) == IF n < 0 THEN Max(p, Len(f)) ELSE Max(p, Min(p + n, Len(f)))

\* the position just after the next line end at or after p, or the end of f
RECURSIVE LineEnd(_, _)
LineEnd(f, p) ==
    IF p >= Len(f) THEN Max(p, Len(f))
    ELSE IF f[p + 1] = NL THEN p + 1
    ELSE LineEnd(f, p + 1)

(***************************************************************************)
(* The cursor operations of the parser.  Each takes the file and a reader   *)
(* state s = [st, pos, info, w] and returns the reader state after it:      *)
(* st is "ok", the name of the exception raised, or "hang" when the         *)
(* operation never returns; w is the value it produced.  An operation       *)
(* applied to a state that is not "ok" is not executed.                     *)
(***************************************************************************)
Reader(p, info) == [st |-> "ok", pos |-> p, info |-> info, w |-> <<>>]

Raise(s, e) == [s EXCEPT !.st = e]

\* F(x) for the reader state x = s when it is "ok", else s unchanged
Ok(s, F(_)) == With(s, LAMBDA x : IF x.st # "ok" THEN x ELSE F(x))

\* the loop of _read_until: every byte read is decoded and appended, a
\* terminator or line end breaks the loop only once the word is not empty,
\* and at the end of the stream fp.read(1) returns b'' for ever
RECURSIVE ReadUntilLoop(_, _, _, _)
ReadUntilLoop(f, s, terminator, word) ==
    IF s.pos >= Len(f) THEN [s EXCEPT !.st = "hang", !.w = word]
    ELSE IF f[s.pos + 1] >= 128
         THEN [s EXCEPT !.st = "UnicodeDecodeError", !.pos = s.pos + 1, !.w = word]
    ELSE IF (f[s.pos + 1] = terminator \/ f[s.pos + 1] = NL) /\ Len(word) > 0
         THEN [s EXCEPT !.pos = s.pos + 1, !.w = word]
    ELSE ReadUntilLoop(f, [s EXCEPT !.pos = s.pos + 1], terminator,
                       Append(word, f[s.pos + 1]))

read_until(f, s, terminator) ==
    Ok(s, LAMBDA x : ReadUntilLoop(f, x, terminator, <<>>))

\* the reader s holding the parsed value, 0 for a text that is no number
ParsedLenient(s, r) == [s EXCEPT !.w = IF r.ok THEN r.v ELSE 0]

\* the reader s holding the parsed value r.v, or ValueError
Parsed(s, r) == IF r.ok THEN [s EXCEPT !.w = r.v] ELSE Raise(s, "ValueError")

\* int(x) applied to the str the reader holds
ToInt(s) == Ok(s, LAMBDA x : With(ParseInt(x.w, StrWS), LAMBDA r : Parsed(x, r)))

\* int(x) applied to the bytes the reader holds
BytesToInt(s) == Ok(s, LAMBDA x : With(ParseInt(x.w, BytesWS), LAMBDA r : Parsed(x, r)))

\* float(x) applied to the str the reader holds
ToFloat(s) == Ok(s, LAMBDA x : With(ParseFloat(x.w, StrWS), LAMBDA r : Parsed(x, r)))

read_int(f, s) == ToInt(read_until(f, s, SP))

read_float(f, s) == ToFloat(read_until(f, s, SP))

\* the reader x moved to position q, holding the bytes it passed
Take(f, x, q) == [x EXCEPT !.pos = q, !.w = SubSeq(f, x.pos + 1, q)]

\* fp.read(n), the bytes kept as the reader's value
read(f, s, n) == Ok(s, LAMBDA x : Take(f, x, ReadEnd(f, x.pos, n)))

\* fp.readline(): up to and including the next b'\n', or up to the end
readline(f, s) == Ok(s, LAMBDA x : With(LineEnd(f, x.pos), LAMBDA q : Take(f, x, q)))

\* _to_string applied to the reader's value
Decode(s) ==
    Ok(s, LAMBDA x :
            With(to_string(x.w),
                 LAMBDA r : IF r.ok THEN [x EXCEPT !.w = r.s]
                            ELSE Raise(x, "UnicodeDecodeError")))

\* _read_string(fp): the length is read from the file
read_string(f, s) ==
    Ok(ToInt(Decode(readline(f, s))), LAMBDA l : Take(f, l, ReadEnd(f, l.pos, l.w)))

\* for _ in range(n): fp.readline()
RECURSIVE skip_lines(_, _, _)
skip_lines(f, s, n) == IF n <= 0 THEN s ELSE skip_lines(f, readline(f, s), n - 1)

\* _skip_spaces: the first position at or after p whose byte is neither a
\* space nor a line end; at the end of the stream '' is neither, so it stops
RECURSIVE SkipSpacesLoop(_, _)
SkipSpacesLoop(f, p) ==
    IF p >= Len(f) THEN p
    ELSE IF f[p + 1] \in {SP, NL} THEN SkipSpacesLoop(f, p + 1)
    ELSE p

\* the byte that ends the loop is decoded before it is compared
skip_spaces(f, s) ==
    Ok(s, LAMBDA x :
            With(SkipSpacesLoop(f, x.pos),
                 LAMBDA q : IF q < Len(f) /\ f[q + 1] >= 128
                            THEN Raise([x EXCEPT !.pos = q + 1], "UnicodeDecodeError")
                            ELSE [x EXCEPT !.pos = q]))

\* info[key] = value
Put(d, k, v) == (k :> v) @@ d

\* del info[key]
Del(d, k) == [x \in DOMAIN d \ {k} |-> d[x]]

\* info[key] = the reader's value
Store(s, k) == Ok(s, LAMBDA x : [x EXCEPT !.info = Put(x.info, k, x.w)])

(***************************************************************************)
(* Values of the metadata record that Python types differently.             *)
(***************************************************************************)
PyNone == [t |-> "None", v |-> <<>>]
PyBytes(b) == [t |-> "bytes", v |-> b]
PyList(l) == [t |-> "list", v |-> l]

\* np.nan
NaN == [n |-> 0, d |-> 0 - 1]

\* a & b on Python integers (two's complement of unbounded width)
RECURSIVE BitAnd(_, _)
BitAnd(a, b) ==
    IF a = 0 \/ b = 0 THEN 0
    ELSE IF a = 0 - 1 THEN b
    ELSE IF b = 0 - 1 THEN a
    ELSE (a % 2) * (b % 2) + 2 * BitAnd(a \div 2, b \div 2)

\* [float(c) for c in words] for bytes objects c, appended to acc; ok = FALSE is ValueError
RECURSIVE FloatsFrom(_, _, _)
FloatsFrom(words, k, acc) ==
    IF k > Len(words) THEN [ok |-> TRUE, v |-> acc]
    ELSE With(ParseFloat(words[k], BytesWS),
              LAMBDA h : IF h.ok THEN FloatsFrom(words, k + 1, Append(acc, h.v))
                         ELSE [ok |-> FALSE, v |-> <<>>])

Floats(words) == FloatsFrom(words, 1, <<>>)

\* map(int, words) for bytes objects, appended to acc; ok = FALSE is ValueError
RECURSIVE IntsFrom(_, _, _)
IntsFrom(words, k, acc) ==
    IF k > Len(words) THEN [ok |-> TRUE, v |-> acc]
    ELSE With(ParseInt(words[k], BytesWS),
              LAMBDA h : IF h.ok THEN IntsFrom(words, k + 1, Append(acc, h.v))
                         ELSE [ok |-> FALSE, v |-> <<>>])

Ints(words) == IntsFrom(words, 1, <<>>)

(***************************************************************************)
(* inspect, in the order of its source, cut into the parts that the         *)
(* actions below execute one after the other.                               *)
(***************************************************************************)
\* line 1 with no comparison of what was read
CheckMagicLax(f, s) == Decode(read(f, s, 36))

\* line 1: the signature
CheckMagic(f, s) ==
    Ok(Decode(read(f, s, 36)),
       LAMBDA r : IF r.w # MAGIC THEN Raise(r, "SyntaxError") ELSE r)

\* str.strip() of the reader's value
StripStr(s) == Ok(s, LAMBDA x : [x EXCEPT !.w = Strip(x.w, StrWS)])

\* info[key] = (first, the reader's value)
StorePair(s, key, first) ==
    Ok(s, LAMBDA y : [y EXCEPT !.info = Put(y.info, key, <<first, y.w>>)])

\* One statement of inspect that only moves the cursor or stores what it
\* reads: the kind of read, the key stored (if any), the length (if any).
Stmt(op, key, n) == [op |-> op, key |-> key, n |-> n]

Exec(f, s, stmt) ==
    CASE stmt.op = "readline" -> readline(f, s)
      [] stmt.op = "read" -> read(f, s, stmt.n)
      [] stmt.op = "word" -> read_until(f, s, SP)
      [] stmt.op = "rest" -> read_until(f, s, NL)
      [] stmt.op = "skipint" -> read_int(f, s)
      [] stmt.op = "int" -> Store(read_int(f, s), stmt.key)
      [] stmt.op = "float" -> Store(read_float(f, s), stmt.key)
      [] stmt.op = "string" -> Store(read_string(f, s), stmt.key)
      [] stmt.op = "strip" -> Store(StripStr(Decode(readline(f, s))), stmt.key)
      [] stmt.op = "ints" ->
            Ok(read_int(f, s), LAMBDA x : StorePair(read_int(f, x), stmt.key, x.w))
      [] stmt.op = "floats" ->
            Ok(read_float(f, s), LAMBDA x : StorePair(read_float(f, x), stmt.key, x.w))

\* the statements of prog from the k-th on, up to the first that fails
RECURSIVE RunFrom(_, _, _, _)
RunFrom(f, s, prog, k) ==
    IF s.st # "ok" \/ k > Len(prog) THEN s
    ELSE RunFrom(f, Exec(f, s, prog[k]), prog, k + 1)

Run(f, s, prog) == RunFrom(f, s, prog, 1)

Words(n) == [k \in 1..n |-> Stmt("word", "", 0)]

\* lines 2 and 3: the acquisition scalars
ScalarStatements ==
    <<Stmt("readline", "", 0), Stmt("int", "SifVersion", 0)>>
    \o Words(3)
    \o <<Stmt("int", "ExperimentTime", 0), Stmt("float", "DetectorTemperature", 0),
         Stmt("read", "", 10), Stmt("word", "", 0),
         Stmt("float", "ExposureTime", 0), Stmt("float", "CycleTime", 0),
         Stmt("float", "AccumulatedCycleTime", 0), Stmt("int", "AccumulatedCycles", 0),
         Stmt("read", "", 1), Stmt("read", "", 1),
         Stmt("float", "StackCycleTime", 0), Stmt("float", "PixelReadoutTime", 0)>>
    \o Words(2) \o <<Stmt("float", "GainDAC", 0)>>
    \o Words(2) \o <<Stmt("float", "GateWidth", 0)>>
    \o Words(16) \o <<Stmt("float", "GratingBlaze", 0), Stmt("rest", "", 0)>>

ReadScalars(f, s) == Run(f, s, ScalarStatements)

\* lines 4 to 9: detector, file name, user text, shutter times
DetectorStatements ==
    <<Stmt("strip", "DetectorType", 0), Stmt("ints", "DetectorDimensions", 0),
      Stmt("string", "OriginalFilename", 0), Stmt("read", "", 2),
      Stmt("word", "", 0), Stmt("string", "user_text", 0), Stmt("read", "", 1),
      Stmt("skipint", "", 0), Stmt("read", "", 8), Stmt("floats", "ShutterTime", 0)>>

ReadDetector(f, s) == Run(f, s, DetectorStatements)

\* the k-th word of the line the reader holds, decoded and stored
StoreWord(l, words, k, key) ==
    IF Len(words) < k THEN Raise(l, "IndexError")
    ELSE Store(Decode([l EXCEPT !.w = words[k]]), key)

\* the identifier taken from the first word of the line
ReadSpectrographFirst(f, s) ==
    Ok(readline(f, s), LAMBDA l : StoreWord(l, Split(l.w), 1, "spectrograph"))

\* info['spectrograph'] = _to_string(fp.readline().split()[1])
ReadSpectrograph(f, s) ==
    Ok(readline(f, s), LAMBDA l : StoreWord(l, Split(l.w), 2, "spectrograph"))

\* the version branches with the row of 65565 merged into the last one
VersionBranchMerged(f, s, v) ==
    IF 65548 <= BitAnd(v, v) /\ BitAnd(v, v) <= 65557 THEN skip_lines(f, s, 2)
    ELSE IF v = 65558 THEN skip_lines(f, s, 5)
    ELSE IF v \in {65559, 65564} THEN ReadSpectrograph(f, skip_lines(f, s, 8))
    ELSE IF v >= 65565 THEN skip_lines(f, ReadSpectrograph(f, skip_lines(f, s, 8)), 9)
    ELSE s

\* the version branches: if ... elif ... elif ... elif ... elif
VersionBranch(f, s, v) ==
    IF 65548 <= BitAnd(v, v) /\ BitAnd(v, v) <= 65557 THEN skip_lines(f, s, 2)
    ELSE IF v = 65558 THEN skip_lines(f, s, 5)
    ELSE IF v \in {65559, 65564} THEN ReadSpectrograph(f, skip_lines(f, s, 8))
    ELSE IF v = 65565 THEN skip_lines(f, s, 15)
    ELSE IF v > 65565 THEN skip_lines(f, ReadSpectrograph(f, skip_lines(f, s, 8)), 9)
    ELSE s

\* the version branches, and the default of 'spectrograph'
VersionDispatch(f, s) ==
    Ok(VersionBranch(f, s, s.info["SifVersion"]),
       LAMBDA d : IF "spectrograph" \in DOMAIN d.info THEN d
                  ELSE [d EXCEPT !.info = Put(d.info, "spectrograph", Sentinel)])

\* SifCalbVersion with no additional skip
ReadCalbVersionPlain(f, s) == Store(ToInt(read_until(f, s, SP)), "SifCalbVersion")

\* SifCalbVersion and its additional skip
ReadCalbVersion(f, s) ==
    Ok(Store(ToInt(read_until(f, s, SP)), "SifCalbVersion"),
       LAMBDA c : IF c.w = 65540 THEN readline(f, c) ELSE c)

\* the calibration line l: PixelCalibration for a Mechelle, else the raw line
CalibrationLine(l) ==
    IF Contains(l.info["spectrograph"], Mechelle)
    THEN With(Floats(Split(Strip(l.w, BytesWS))),
              LAMBDA c : IF c.ok THEN [l EXCEPT !.info = Put(l.info, "PixelCalibration", c.v)]
                         ELSE Raise(l, "ValueError"))
    ELSE [l EXCEPT !.info = Put(l.info, "Calibration_data", PyBytes(l.w))]

\* try: info['RamanExWavelength'] = float(raman)  except: ... = np.nan
RamanLine(l) ==
    With(ParseFloat(l.w, BytesWS),
         LAMBDA r : [l EXCEPT !.info = Put(l.info, "RamanExWavelength",
                                           IF r.ok THEN r.v ELSE NaN)])

\* the calibration line, the Raman wavelength and the lines around it
ReadCalibration(f, s) ==
    skip_lines(f,
        Ok(readline(f, skip_lines(f, Ok(readline(f, s), LAMBDA l : CalibrationLine(l)), 2)),
           LAMBDA l : RamanLine(l)),
        3)

\* the axis names, the outer bounding box and the frame counts
CountStatements ==
    <<Stmt("string", "FrameAxis", 0), Stmt("string", "DataType", 0),
      Stmt("string", "ImageAxis", 0)>>
    \o Words(5)
    \o <<Stmt("int", "NumberOfFrames", 0), Stmt("int", "NumberOfSubImages", 0),
         Stmt("int", "TotalLength", 0), Stmt("int", "ImageLength", 0)>>

ReadCounts(f, s) == Run(f, s, CountStatements)

\* the two binning factors read in the other order
GeometrySwapped(l, a) ==
    IF a[6] = 0 \/ a[5] = 0 THEN Raise(l, "ZeroDivisionError")
    ELSE [l EXCEPT !.w = [bound |-> TRUE, box |-> <<a[1], a[2], a[3], a[4]>>,
                          width |-> TruncDiv(1 + a[3] - a[1], a[5]),
                          height |-> TruncDiv(1 + a[2] - a[4], a[6]),
                          xbin |-> a[5], ybin |-> a[6]]]

\* x0, y1, x1, y0, ybin, xbin = a;  width = int((1 + x1 - x0) / xbin);
\* height = int((1 + y1 - y0) / ybin)
Geometry(l, a) ==
    IF a[6] = 0 \/ a[5] = 0 THEN Raise(l, "ZeroDivisionError")
    ELSE [l EXCEPT !.w = [bound |-> TRUE, box |-> <<a[1], a[2], a[3], a[4]>>,
                          width |-> TruncDiv(1 + a[3] - a[1], a[6]),
                          height |-> TruncDiv(1 + a[2] - a[4], a[5]),
                          xbin |-> a[6], ybin |-> a[5]]]

\* the unpacking of map(int, frame_area[:6]) into six names
Unpack(l, six) ==
    IF ~six.ok \/ Len(six.v) < 6 THEN Raise(l, "ValueError") ELSE Geometry(l, six.v)

\* frame_area[:6]
FirstSix(frame_area) == SubSeq(frame_area, 1, Min(6, Len(frame_area)))

\* the loop over the declared subimages; the reader's value holds the box
\* (x0, y1, x1, y0), width, height, xbin and ybin once an iteration has
\* assigned them
RECURSIVE SubimageLoop(_, _, _)
SubimageLoop(f, s, n) ==
    IF s.st # "ok" \/ n <= 0 THEN s
    ELSE SubimageLoop(f,
             Ok(readline(f, read_until(f, s, SP)),
                LAMBDA l : Unpack(l, Ints(FirstSix(Split(Strip(l.w, BytesWS)))))),
             n - 1)

\* the names of the loop body before any iteration has assigned them
Unbound ==
    [bound |-> FALSE, box |-> <<0, 0, 0, 0>>, width |-> 0, height |-> 0,
     xbin |-> 0, ybin |-> 0]

\* size = (int(width), int(height) * no_subimages), info['xbin'] and
\* info['ybin']; the reader's value becomes [width, height, size]
Sized(g, no_subimages) ==
    IF ~g.w.bound THEN Raise(g, "UnboundLocalError")
    ELSE [g EXCEPT !.info = Put(Put(g.info, "xbin", g.w.xbin), "ybin", g.w.ybin),
                   !.w = [width |-> g.w.width, height |-> g.w.height, box |-> g.w.box,
                          size |-> <<g.w.width, g.w.height * no_subimages>>]]

ReadSubimages(f, s) ==
    Ok(SubimageLoop(f, [s EXCEPT !.w = Unbound], s.info["NumberOfSubImages"]),
       LAMBDA g : Sized(g, g.info["NumberOfSubImages"]))

\* 'timestamp_of_{0:d}'.format(f)
TimestampKey(k) == "timestamp_of_" \o ToString(k)

\* for f in range(no_images): info['timestamp_of_f'] = int(fp.readline())
RECURSIVE TimestampLoop(_, _, _, _)
TimestampLoop(f, s, k, no_images) ==
    IF s.st # "ok" \/ k >= no_images THEN s
    ELSE TimestampLoop(f, Store(BytesToInt(readline(f, s)), TimestampKey(k)),
                       k + 1, no_images)

ReadTimestamps(f, s) ==
    TimestampLoop(f, skip_spaces(f, s), 0, s.info["NumberOfFrames"])

\* the reader holding its own position as its value
AtCursor(s) == [s EXCEPT !.w = s.pos]

\* the branches on flag with the further lines read from version 65567 on
FlaggedFrom(f, l, flag, offset) ==
    IF ~flag.ok THEN [l EXCEPT !.pos = offset, !.w = offset]
    ELSE IF flag.v = 0 THEN AtCursor(l)
    ELSE IF flag.v = 1 /\ l.info["SifVersion"] >= 65567
         THEN AtCursor(skip_lines(f, l, l.info["NumberOfFrames"]))
    ELSE [l EXCEPT !.w = offset]

\* the branches on flag, for the reader l after the flag line was read from
\* position offset; the reader's value becomes offset
Flagged(f, l, flag, offset) ==
    IF ~flag.ok THEN [l EXCEPT !.pos = offset, !.w = offset]
    ELSE IF flag.v = 0 THEN AtCursor(l)
    ELSE IF flag.v = 1 /\ l.info["SifVersion"] = 65567
         THEN AtCursor(skip_lines(f, l, l.info["NumberOfFrames"]))
    ELSE [l EXCEPT !.w = offset]

\* the optional flag line after the timestamps
ReadFlag(f, s) ==
    Ok(readline(f, s), LAMBDA l : Flagged(f, l, ParseInt(l.w, BytesWS), s.pos))

\* the next part of inspect applied to the reader s when no part has raised
Then(s, part(_)) == Ok(s, LAMBDA x : part(Reader(x.pos, x.info)))

\* inspect from the signature to the flag line: the reader's value is offset
inspect_header(f) ==
    Then(Then(Then(Then(Then(Then(Then(Then(Then(
        CheckMagic(f, Reader(0, <<>>)),
        LAMBDA s : ReadScalars(f, s)),
        LAMBDA s : ReadDetector(f, s)),
        LAMBDA s : VersionDispatch(f, s)),
        LAMBDA s : ReadCalbVersion(f, s)),
        LAMBDA s : ReadCalibration(f, s)),
        LAMBDA s : ReadCounts(f, s)),
        LAMBDA s : ReadSubimages(f, s)),
        LAMBDA s : ReadTimestamps(f, s)),
        LAMBDA s : ReadFlag(f, s))

\* one tile descriptor
Tile(size, at) ==
    [mode |-> "raw", box |-> <<0, 0>> \o size, offset |-> at, args |-> <<"F;32F", 0, 1>>]

\* the tile list with the frame stride counted in samples
TilesUnscaled(size, offset, width, height, no_subimages, no_images) ==
    [k \in 1..no_images |->
        Tile(size, offset + (k - 1) * width * height * no_subimages)]

\* tile = [("raw", (0,0)+size, offset+f*width*height*no_subimages*4, ...)
\*         for f in range(no_images)]
Tiles(size, offset, width, height, no_subimages, no_images) ==
    [k \in 1..no_images |->
        Tile(size, offset + (k - 1) * width * height * no_subimages * 4)]

\* 'Calibration_data_for_frame_{:d}'.format(k)
FrameKey(k) == "Calibration_data_for_frame_" \o ToString(k)

\* texts[i][len(key)+2:].strip().split(b',') for the line text and key
Coefs(text, key) == SplitOn(Strip(SubSeq(text, Len(key) + 3, Len(text)), BytesWS), 44)

\* the per-frame coefficient lists of extract_user_text
RECURSIVE FrameCoefLoop(_, _, _, _)
FrameCoefLoop(info, texts, i, n) ==
    IF i >= n THEN [st |-> "ok", info |-> info]
    ELSE IF i + 1 > Len(texts) THEN [st |-> "IndexError", info |-> info]
    ELSE With(Floats(Coefs(texts[i + 1], FrameKey(i + 1))),
              LAMBDA fl : IF ~fl.ok THEN [st |-> "ValueError", info |-> info]
                          ELSE FrameCoefLoop(Put(info, FrameKey(i + 1), fl.v),
                                             texts, i + 1, n))

\* the per-frame lists with the generic line left as read
PerFrameUncleared(r) ==
    IF r.st # "ok" THEN r ELSE [r EXCEPT !.info = Del(r.info, "user_text")]

\* info['Calibration_data'] = None after the per-frame lists
PerFrame(r) ==
    IF r.st # "ok" THEN r
    ELSE [r EXCEPT !.info = Del(Put(r.info, "Calibration_data", PyNone), "user_text")]

\* the generic calibration line with the working key left in the record
GenericKept(info, fl) ==
    [st |-> "ok",
     info |-> IF fl.ok THEN Put(info, "Calibration_data", PyList(fl.v))
              ELSE Del(info, "Calibration_data")]

\* the generic calibration line as a list of floats, or dropped
Generic(info, fl) ==
    [st |-> "ok",
     info |-> Del(IF fl.ok THEN Put(info, "Calibration_data", PyList(fl.v))
                  ELSE Del(info, "Calibration_data"),
                  "user_text")]

extract_user_text(info) ==
    IF Contains(SubSeq(info["user_text"], 1, Min(20, Len(info["user_text"]))), CalPrefix)
    THEN PerFrame(FrameCoefLoop(info, SplitOn(info["user_text"], NL), 0,
                                info["NumberOfFrames"]))
    ELSE IF "Calibration_data" \notin DOMAIN info
         THEN [st |-> "KeyError", info |-> info]
    ELSE Generic(info, Floats(Split(Strip(info["Calibration_data"].v, BytesWS))))

(***************************************************************************)
(* extract_calibration                                                      *)
(***************************************************************************)
\* the list as stored
ReverseNot(l) == l

\* np.flipud(l)
Reverse(l) == [k \in 1..Len(l) |-> l[Len(l) + 1 - k]]

\* np.poly1d(c)(x): c is highest degree first; acc is the value of the
\* first k - 1 coefficients
RECURSIVE PolyVal(_, _, _, _)
PolyVal(c, x, k, acc) ==
    IF k > Len(c) THEN acc ELSE PolyVal(c, x, k + 1, FAdd(FMul(acc, FInt(x)), c[k]))

\* np.poly1d(np.flipud(coef))(np.arange(1, width + 1))
Wavelengths(coef, width) == [x \in 1..width |-> PolyVal(Reverse(coef), x, 1, FInt(0))]

\* every row from the coefficients of frame 1
PerFrameTableFirst(info, n, width) ==
    [st |-> "ok", t |-> "2d",
     v |-> [k \in 1..n |-> Wavelengths(info[FrameKey(1)], width)]]

\* the per-frame branch: np.ndarray((n, width)) and one row per frame
PerFrameTable(info, n, width) ==
    IF n < 0 \/ width < 0 THEN [st |-> "ValueError", t |-> "raised", v |-> <<>>]
    ELSE IF \E k \in 1..n : FrameKey(k) \notin DOMAIN info
         THEN [st |-> "KeyError", t |-> "raised", v |-> <<>>]
    ELSE [st |-> "ok", t |-> "2d",
          v |-> [k \in 1..n |-> Wavelengths(info[FrameKey(k)], width)]]

\* the result: st is "ok" or the exception raised, t the form returned
extract_calibration(info) ==
    IF "Calibration_data_for_frame_1" \in DOMAIN info
    THEN PerFrameTable(info, info["NumberOfFrames"], info["DetectorDimensions"][1])
    ELSE IF "Calibration_data" \in DOMAIN info
         THEN IF info["Calibration_data"].t # "list"
              THEN [st |-> "ValueError", t |-> "raised", v |-> <<>>]
              ELSE [st |-> "ok", t |-> "1d",
                    v |-> Wavelengths(info["Calibration_data"].v,
                                      info["DetectorDimensions"][1])]
    ELSE [st |-> "ok", t |-> "None", v |-> <<>>]

(***************************************************************************)
(* The pixel decoder's reads: np.fromfile(f, count, dtype='<f').            *)
(***************************************************************************)
\* the single m / 2^k kept in binary: its decimal digits do not fit an integer
Binary(m, k) == [n |-> m, b |-> k]

\* m / 2^k as a decimal: common factors of two are cancelled first
RECURSIVE Halve(_, _)
Halve(m, k) ==
    IF k = 0 \/ m = 0 THEN FInt(m)
    ELSE IF m % 2 = 0 THEN Halve(m \div 2, k - 1)
    ELSE IF k <= 13 /\ m <= 2147483647 \div Pow(5, k) THEN Norm(m * Pow(5, k), k)
    ELSE Binary(m, k)

\* +inf and -inf
Inf(sign) == [n |-> sign, d |-> 0 - 1]

Negate(x) == [x EXCEPT !.n = 0 - x.n]

\* the magnitude of the single with biased exponent e and fraction frac
F32Mag(e, frac) ==
    IF e = 0 THEN Halve(frac, 149)
    ELSE IF e >= 158 THEN Binary(8388608 + frac, 150 - e)
    ELSE IF e >= 150 THEN FInt((8388608 + frac) * Pow(2, e - 150))
    ELSE Halve(8388608 + frac, 150 - e)

\* the single with sign bit neg, biased exponent e and fraction frac
F32Value(neg, e, frac) ==
    IF e = 255 THEN (IF frac # 0 THEN NaN ELSE Inf(IF neg THEN 0 - 1 ELSE 1))
    ELSE IF neg THEN Negate(F32Mag(e, frac))
    ELSE F32Mag(e, frac)

\* the IEEE-754 single whose little-endian bytes are b0 b1 b2 b3
F32(b0, b1, b2, b3) ==
    F32Value(b3 >= 128, (b3 % 128) * 2 + (b2 \div 128),
             (b2 % 128) * 65536 + b1 * 256 + b0)

\* the k-th sample (k = 1, 2, ...) of the file from byte offset at
Sample(f, at, k) ==
    F32(f[at + 4 * k - 3], f[at + 4 * k - 2], f[at + 4 * k - 1], f[at + 4 * k])

\* the number of whole samples np.fromfile can supply from offset at
Supplied(f, at, count) ==
    Min(count, IF at >= Len(f) THEN 0 ELSE (Len(f) - at) \div 4)

\* .reshape(size[1], size[0]) of the samples read at offset at
Frame(f, at, size) ==
    [r \in 1..size[2] |-> [c \in 1..size[1] |-> Sample(f, at, (r - 1) * size[1] + c)]]

\* the shape with the two image axes exchanged
CubeShapeSwapped(no_images, size) == <<no_images, size[1], size[2]>>

\* np.ndarray((no_images, size[1], size[0]))
CubeShape(no_images, size) == <<no_images, size[2], size[1]>>

\* a slice that keeps the whole array
TruncateNone(d, i) == d

\* data = data[:i]
Truncate(d, i) ==
    [shape |-> <<Min(i, d.shape[1]), d.shape[2], d.shape[3]>>,
     frames |-> SubSeq(d.frames, 1, Min(i, Len(d.frames)))]

(***************************************************************************)
(* The input files.  A file is written out from a description of its        *)
(* fields, in the layout the parser reads; the descriptions vary the fields *)
(* independently of what the parser does with them (the number of lines     *)
(* after the shutter line does not follow from the version, the pixel block *)
(* may be cut short, a field may hold text that is no number).              *)
(***************************************************************************)
MaxFrames == 2
MaxSubImages == 2
MaxWidth == 2
MaxHeight == 2

RECURSIVE DecDigits(_)
DecDigits(n) == IF n < 10 THEN <<48 + n>> ELSE Append(DecDigits(n \div 10), 48 + (n % 10))

\* the decimal text of n
Dec(n) == IF n < 0 THEN <<45>> \o DecDigits(0 - n) ELSE DecDigits(n)

RECURSIVE Log2(_)
Log2(v) == IF v < 2 THEN 0 ELSE 1 + Log2(v \div 2)

\* the four little-endian bytes of the single with biased exponent be and
\* fraction frac
F32Pack(be, frac) ==
    <<frac % 256, (frac \div 256) % 256, (be % 2) * 128 + (frac \div 65536), be \div 2>>

\* the four little-endian bytes of the single-precision float v (v in Nat)
F32Bytes(v) ==
    IF v = 0 THEN <<0, 0, 0, 0>>
    ELSE F32Pack(Log2(v) + 127, (v - Pow(2, Log2(v))) * Pow(2, 23 - Log2(v)))

RECURSIVE Repeat(_, _)
Repeat(w, n) == IF n <= 0 THEN <<>> ELSE w \o Repeat(w, n - 1)

RECURSIVE Concat(_)
Concat(ws) == IF ws = <<>> THEN <<>> ELSE Head(ws) \o Concat(Tail(ws))

\* words joined by single spaces
RECURSIVE Join(_)
Join(ws) == IF ws = <<>> THEN <<>>
            ELSE IF Len(ws) = 1 THEN Head(ws)
            ELSE Head(ws) \o <<SP>> \o Join(Tail(ws))

\* the pixel block: sample j holds the value 10 * j
Pixels(n) == Concat([j \in 1..n |-> F32Bytes(10 * j)])

\* 'SR303'
Shamrock == <<83, 82, 51, 48, 51>>

\* b'Calibration data for frame k: k,1\n' for k = 1..n
CalBlock(n) ==
    Concat([k \in 1..n |-> CalPrefix \o <<32, 102, 114, 97, 109, 101, 32>> \o Dec(k)
                           \o <<58, 32>> \o Dec(k) \o <<44, 49, NL>>])

Signature(kind) ==
    IF kind = "ok" THEN MAGIC
    ELSE IF kind = "bad" THEN [MAGIC EXCEPT ![36] = SP]
    ELSE IF kind = "binary" THEN [MAGIC EXCEPT ![7] = 255]
    ELSE SubSeq(MAGIC, 1, 20)

\* the text of a numeric field: b'x' when it is the field made non-numeric
Num(in, field, text) == IF in.bad = field THEN <<120>> ELSE text

\* lines 2 and 3
ScalarLines(in) ==
    Dec(65538) \o <<SP, 49, NL>>
    \o Num(in, "SifVersion", Dec(in.ver)) \o <<SP>>
    \o Join(<<Dec(0), Dec(0), Dec(1), Num(in, "ExperimentTime", Dec(7)), Dec(0 - 70)>>)
    \o <<SP>> \o Repeat(<<0>>, 10)
    \o Join(<<Dec(0), Num(in, "ExposureTime", <<49, 46, 53>>), Dec(2), Dec(3), Dec(4)>>)
    \o <<SP, 0, SP>>
    \o Join(<<Dec(5), Dec(6), Dec(0), Dec(1), Dec(7), Dec(0), Dec(0), Dec(8)>>)
    \o <<SP>> \o Repeat(<<48, SP>>, 16) \o Dec(9) \o <<SP, 120, NL>>

\* lines 4 to 9
DetectorLines(in) ==
    <<68, 85, NL>> \o Num(in, "DetectorDimensions", Dec(in.W)) \o <<SP>> \o Dec(in.H)
    \o <<SP>> \o Dec(1) \o <<NL, 97, SP, NL>>
    \o Dec(65538) \o <<SP>> \o Num(in, "length", Dec(Len(in.user))) \o <<NL>> \o in.user
    \o <<NL>>
    \o Dec(65538) \o <<SP>> \o Repeat(<<0>>, 8) \o <<48, SP, 48, NL>>

\* the lines between the shutter line and SifCalbVersion
HeaderLines(in) ==
    Concat([k \in 1..in.nlines |->
               IF k = 9 THEN <<76>> \o in.id \o <<NL>> ELSE <<76, SP, 107, NL>>])

\* SifCalbVersion up to the line before the axis names
CalibrationLines(in) ==
    Repeat(<<SP>>, in.pad) \o Num(in, "SifCalbVersion", Dec(in.calb)) \o <<SP>> \o Repeat(<<115, NL>>, in.calbskip) \o in.coefs \o <<NL>>
    \o <<48, NL, 48, NL>> \o in.raman \o <<NL, 52, NL, 49, NL, 49, NL>>

\* the axis names, the counts, the subimages, the timestamps and the flag
CountLines(in) ==
    <<49, NL, 87, 49, NL, 67, 49, NL, 80>>
    \o Join(<<Dec(65541), Dec(1), Dec(in.H), Dec(in.W), Dec(1),
              Num(in, "NumberOfFrames", Dec(in.N)),
              Num(in, "NumberOfSubImages", Dec(in.nsub)),
              Num(in, "TotalLength", Dec(in.W * in.H * in.N)),
              Num(in, "ImageLength", Dec(in.W * in.H))>>) \o <<NL>>
    \o Repeat(Dec(65538) \o <<SP>>
              \o Join([k \in 1..6 |-> Num(in, <<"x0", "y1", "x1", "y0", "ybin", "xbin">>[k], Dec(in.box[k]))]) \o <<NL>>,
              IF in.lastbox = <<>> THEN in.nsub ELSE in.nsub - 1)
    \o (IF in.lastbox = <<>> THEN <<>>
        ELSE Dec(65538) \o <<SP>> \o Join([k \in 1..6 |-> Dec(in.lastbox[k])]) \o <<NL>>)
    \o Concat([k \in 1..in.N |-> Num(in, "timestamp", Dec(k - 1)) \o <<NL>>])
    \o in.flag

\* w without its last n bytes
Cut(w, n) == SubSeq(w, 1, Len(w) - n)

FileOf(in) ==
    Cut(Signature(in.magic) \o ScalarLines(in) \o DetectorLines(in) \o HeaderLines(in)
        \o CalibrationLines(in) \o CountLines(in) \o Pixels(in.samples), in.cut)

\* a single-frame file of a 2 x 1 detector, version 65559, with nine lines
\* after the shutter line and the flag line b'0\n'
Plain ==
    [magic |-> "ok", ver |-> 65559, nlines |-> 9, id |-> <<SP>> \o Shamrock,
     calb |-> 65539, calbskip |-> 0, coefs |-> <<49, SP, 48>>, user |-> <<>>,
     raman |-> <<55, 56, 53>>, W |-> 2, H |-> 1, N |-> 1, nsub |-> 1,
     box |-> <<1, 1, 2, 1, 1, 1>>, flag |-> <<48, NL>>, samples |-> 2, cut |-> 0,
     bad |-> "none", pad |-> 0, lastbox |-> <<>>]

\* a file whose subimages cover the whole w x h detector, unbinned, with all
\* its samples
Whole(w, h, n, nsub) ==
    [Plain EXCEPT !.W = w, !.H = h, !.N = n, !.nsub = nsub,
                  !.box = <<1, h, w, 1, 1, 1>>, !.samples = w * h * n * nsub]

Versions == {65538, 65547, 65548, 65557, 65558, 65559, 65560, 65563, 65564, 65565,
             65566, 65567}

\* the calibration lines b'1 0', b'0 1', b'2 3', b'1 2 3', b'x' and b''
CoefLines == {<<49, SP, 48>>, <<48, SP, 49>>, <<50, SP, 51>>, <<49, SP, 50, SP, 51>>,
              <<120>>, <<>>}

\* the numeric fields given the text b'x'
BadFields == {"SifVersion", "ExperimentTime", "ExposureTime", "DetectorDimensions",
              "length", "SifCalbVersion", "NumberOfFrames", "NumberOfSubImages",
              "TotalLength", "ImageLength", "x0", "xbin", "timestamp"}

NonNumericInputs ==
    {[Whole(2, 1, n, 1) EXCEPT !.bad = b] : b \in BadFields, n \in 1..MaxFrames}

\* The files decoded.  In turn: the three damaged signatures; every version
\* with every count of skipped lines and spectrograph line; SifCalbVersion
\* with and without its additional line; SifCalbVersion after one and after
\* two spaces; whole detectors of every size, frame and subimage count, cut
\* short by 0, 1, 4 and 5 bytes; a binned 4 x 2 area; two subimages with
\* different areas and binning (the last one binned by 2 and by 3 along x,
\* binned along y, and with x1 < x0); every user text and calibration line;
\* one frame [10, 20, 30, 40] of a 4 x 1 detector; the flag lines b'0\n',
\* b'1\n', b'1\n9\n9\n', b'2\n', b'x\n' and none; the non-numeric fields;
\* the plain file ending at every byte after the signature.
Inputs ==
    {[Plain EXCEPT !.magic = k] : k \in {"bad", "binary", "short"}}
    \cup {[Plain EXCEPT !.ver = v, !.nlines = n, !.id = i] :
             v \in Versions, n \in {0, 2, 5, 9, 15, 18},
             i \in {<<SP>> \o Shamrock, <<SP>> \o Mechelle \o <<SP, 49>>, <<>>}}
    \cup {[Plain EXCEPT !.ver = v[1], !.nlines = v[2], !.calb = c, !.calbskip = k] :
             v \in {<<65559, 9>>, <<65540, 0>>, <<65567, 18>>},
             c \in {65539, 65540, 65541}, k \in {0, 1}}
    \cup {[Plain EXCEPT !.pad = j] : j \in {1, 2}}
    \cup {[Whole(w, h, n, nsub) EXCEPT !.cut = c] :
             w \in 1..MaxWidth, h \in 1..MaxHeight, n \in 0..MaxFrames,
             nsub \in 0..MaxSubImages, c \in {0, 1, 4, 5}}
    \cup {[Plain EXCEPT !.W = 4, !.H = 2, !.box = <<1, 2, 4, 1, b[1], b[2]>>,
                        !.samples = n, !.N = 1] :
             b \in {<<1, 2>>, <<2, 1>>, <<2, 2>>, <<1, 3>>, <<0, 1>>, <<1, 0>>},
             n \in {2, 4, 8}}
    \cup {[Plain EXCEPT !.W = 4, !.H = 2, !.nsub = 2, !.box = <<1, 2, 4, 1, 1, 1>>,
                        !.lastbox = b, !.samples = 8] :
             b \in {<<1, 2, 4, 1, 1, 2>>, <<1, 2, 4, 1, 1, 3>>, <<1, 2, 4, 1, 2, 1>>,
                    <<3, 2, 1, 1, 1, 2>>}}
    \cup {[Whole(2, 1, n, 1) EXCEPT !.user = u, !.coefs = c, !.id = i] :
             n \in 0..MaxFrames,
             u \in {<<>>, CalBlock(1), CalBlock(2), CalPrefix \o <<SP, 120, NL>>},
             c \in CoefLines,
             i \in {<<SP>> \o Shamrock, <<SP>> \o Mechelle}}
    \cup {[Whole(4, 1, 1, 1) EXCEPT !.coefs = c] : c \in CoefLines}
    \cup {[Whole(2, 1, n, 1) EXCEPT !.ver = v[1], !.nlines = v[2], !.flag = fl] :
             v \in {<<65559, 9>>, <<65566, 18>>, <<65567, 18>>, <<65568, 18>>},
             n \in 1..MaxFrames,
             fl \in {<<48, NL>>, <<49, NL>>, <<49, NL, 57, NL, 57, NL>>, <<50, NL>>,
                     <<120, NL>>, <<>>}}
    \cup NonNumericInputs
    \cup {[Plain EXCEPT !.cut = c] : c \in 1..(Len(FileOf(Plain)) - Len(MAGIC))}
    \cup {[Plain EXCEPT !.user = CalBlock(1), !.cut = c] :
             c \in 1..(Len(FileOf([Plain EXCEPT !.user = CalBlock(1)])) - Len(MAGIC))}


(***************************************************************************)
(* The state of one call  parser(sif_file, ignore_corrupt)  followed by     *)
(* extract_calibration(info), as source.parse makes them.                   *)
(***************************************************************************)
VARIABLES
    file,            \* the bytes of the file
    sif_file,        \* "path": a file name is passed; "stream": an open file object
    ignore_corrupt,  \* the keyword argument
    handle,          \* the file object: "unopened", "open" or "closed"
    pos,             \* its position, fp.tell()
    pc,              \* the part of the code to execute next
    info,            \* the metadata record being built
    loc,             \* the other local variables of inspect and parser
    data,            \* the pixel cube: its shape and the frames written so far
    out,             \* the exception raised and the warnings issued
    cal,             \* the result of extract_calibration
    df,              \* the array source.parse returns
    first,           \* what an earlier invocation on the same bytes returned
    converted,       \* the outcome of SIFconvert
    sliced           \* one call of slice_window: its arguments and its result

vars == <<file, sif_file, ignore_corrupt, handle, pos, pc, info, loc, data, out, cal, df, first,
          converted, sliced>>

NoLocals ==
    [box |-> <<0, 0, 0, 0>>, width |-> 0, height |-> 0, size |-> <<0, 0>>,
     no_images |-> 0, offset |-> 0,
     tile |-> <<>>, i |-> 0, will_close |-> FALSE]

NoData == [shape |-> <<0, 0, 0>>, frames |-> <<>>]

NoCal == [st |-> "unset", t |-> "unset", v |-> <<>>]

NoOutcome == [exc |-> "none", warnings |-> 0, reported |-> <<>>]

Init ==
    /\ \E in \in Inputs : file = FileOf(in)
    /\ sif_file \in {"path", "stream"}
    /\ ignore_corrupt \in BOOLEAN
    /\ handle = IF sif_file = "stream" THEN "open" ELSE "unopened"
    /\ pos = 0
    /\ pc = "call"
    /\ info = <<>>
    /\ loc = NoLocals
    /\ data = NoData
    /\ out = NoOutcome
    /\ cal = NoCal
    /\ df = [st |-> "unset", v |-> <<>>]
    /\ first = [done |-> FALSE, data |-> NoData, info |-> <<>>, cal |-> NoCal]
    /\ converted = [exc |-> "unset", v |-> <<>>]
    /\ sliced = [data |-> <<>>, window |-> "", done |-> TRUE, result |-> <<>>]

\* parser: inspect is called on the argument; a file name has no read
\* method, the AttributeError is caught and the file is opened
Call ==
    /\ pc = "call" /\ converted.exc = "unset"
    /\ pc' = "magic"
    /\ handle' = "open"
    /\ UNCHANGED <<file, sif_file, ignore_corrupt, pos, info, loc, data, out, cal, df, first, converted, sliced>>

\* one part of inspect: r is the reader state after it
Part(from, to, r) ==
    /\ pc = from
    /\ pos' = r.pos
    /\ info' = r.info
    /\ pc' = IF r.st = "ok" THEN to ELSE IF r.st = "hang" THEN "hang" ELSE "raised"
    /\ out' = IF r.st \in {"ok", "hang"} THEN out ELSE [out EXCEPT !.exc = r.st]
    /\ UNCHANGED <<file, sif_file, ignore_corrupt, handle, data, cal, df, first, converted, sliced>>

Signature_ ==
    /\ pc = "magic"
    /\ \E r \in {CheckMagic(file, Reader(pos, info))} : Part("magic", "scalars", r)
    /\ UNCHANGED loc

Scalars ==
    /\ pc = "scalars"
    /\ \E r \in {ReadScalars(file, Reader(pos, info))} : Part("scalars", "detector", r)
    /\ UNCHANGED loc

Detector ==
    /\ pc = "detector"
    /\ \E r \in {ReadDetector(file, Reader(pos, info))} : Part("detector", "dispatch", r)
    /\ UNCHANGED loc

Dispatch ==
    /\ pc = "dispatch"
    /\ \E r \in {VersionDispatch(file, Reader(pos, info))} : Part("dispatch", "calb", r)
    /\ UNCHANGED loc

CalbVersion ==
    /\ pc = "calb"
    /\ \E r \in {ReadCalbVersion(file, Reader(pos, info))} :
            Part("calb", "calibration", r)
    /\ UNCHANGED loc

Calibration ==
    /\ pc = "calibration"
    /\ \E r \in {ReadCalibration(file, Reader(pos, info))} :
            Part("calibration", "counts", r)
    /\ UNCHANGED loc

Counts ==
    /\ pc = "counts"
    /\ \E r \in {ReadCounts(file, Reader(pos, info))} :
            /\ Part("counts", "subimages", r)
            /\ loc' = IF r.st = "ok"
                      THEN [loc EXCEPT !.no_images = r.info["NumberOfFrames"]]
                      ELSE loc

Subimages ==
    /\ pc = "subimages"
    /\ \E r \in {ReadSubimages(file, Reader(pos, info))} :
            /\ Part("subimages", "timestamps", r)
            /\ loc' = IF r.st = "ok"
                      THEN [loc EXCEPT !.box = r.w.box, !.width = r.w.width,
                                       !.height = r.w.height, !.size = r.w.size]
                      ELSE loc

Timestamps ==
    /\ pc = "timestamps"
    /\ \E r \in {ReadTimestamps(file, Reader(pos, info))} :
            Part("timestamps", "flag", r)
    /\ UNCHANGED loc

Flag ==
    /\ pc = "flag"
    /\ \E r \in {ReadFlag(file, Reader(pos, info))} :
            /\ Part("flag", "tile", r)
            /\ loc' = [loc EXCEPT !.offset = r.w]

\* inspect: the tile list, info['size'], info['tile'], info['offset']
BuildTiles ==
    /\ pc = "tile"
    /\ \E tile \in {Tiles(loc.size, loc.offset, loc.width, loc.height,
                          info["NumberOfSubImages"], loc.no_images)} :
            /\ loc' = [loc EXCEPT !.tile = tile]
            /\ info' = Put(Put(Put(info, "size", loc.size), "tile", tile),
                           "offset", loc.offset)
    /\ pc' = "user_text"
    /\ UNCHANGED <<file, sif_file, ignore_corrupt, handle, pos, data, out, cal, df, first, converted, sliced>>

\* inspect: info = extract_user_text(info), and the return to parser
UserText ==
    /\ pc = "user_text"
    /\ \E r \in {extract_user_text(info)} :
            /\ info' = r.info
            /\ pc' = IF r.st = "ok" THEN "allocate" ELSE "raised"
            /\ out' = IF r.st = "ok" THEN out ELSE [out EXCEPT !.exc = r.st]
    /\ UNCHANGED <<file, sif_file, ignore_corrupt, handle, pos, loc, data, cal, df, first, converted, sliced>>

\* parser: will_close, and the uninitialised cube
Allocate ==
    /\ pc = "allocate"
    /\ \E shape \in {CubeShape(loc.no_images, loc.size)} :
            IF \E k \in 1..3 : shape[k] < 0
            THEN /\ data' = data
                 /\ pc' = "raised"
                 /\ out' = [out EXCEPT !.exc = "ValueError"]
            ELSE /\ data' = [shape |-> shape, frames |-> <<>>]
                 /\ pc' = "tiles"
                 /\ out' = out
    /\ loc' = [loc EXCEPT !.will_close = (sif_file = "path"), !.i = 0]
    /\ UNCHANGED <<file, sif_file, ignore_corrupt, handle, pos, info, cal, df, first, converted, sliced>>

\* data[i] = np.fromfile(...).reshape(size[1], size[0]) at offset at
Fill(at) ==
    IF loc.i < data.shape[1]
    THEN /\ data' = [data EXCEPT !.frames = Append(data.frames, Frame(file, at, loc.size))]
         /\ pc' = "tiles"
         /\ out' = out
    ELSE /\ data' = data
         /\ pc' = "raised"
         /\ out' = [out EXCEPT !.exc = "IndexError"]

\* the handler with the warning issued whatever ignore_corrupt is
CorruptTolerant(cut) ==
    /\ data' = cut
    /\ pc' = "tiles"
    /\ out' = [out EXCEPT !.warnings = out.warnings + 1,
                          !.reported = <<loc.no_images, cut.shape[1]>>]

\* except ValueError: data = data[:i], then the error or the warning
Corrupt(cut) ==
    /\ data' = cut
    /\ pc' = IF ignore_corrupt THEN "tiles" ELSE "raised"
    /\ out' = IF ignore_corrupt
              THEN [out EXCEPT !.warnings = out.warnings + 1,
                               !.reported = <<loc.no_images, cut.shape[1]>>]
              ELSE [out EXCEPT !.exc = "ValueError",
                               !.reported = <<loc.no_images, cut.shape[1]>>]

\* parser: one iteration of the loop over the tiles
ReadTile ==
    /\ pc = "tiles"
    /\ loc.i < Len(loc.tile)
    /\ \E at \in {loc.tile[loc.i + 1].offset}, count \in {loc.size[1] * loc.size[2]} :
         \E got \in {Supplied(file, at, count)} :
            /\ pos' = at + 4 * got
            /\ IF got = count THEN Fill(at) ELSE Corrupt(Truncate(data, loc.i))
    /\ loc' = [loc EXCEPT !.i = loc.i + 1]
    /\ UNCHANGED <<file, sif_file, ignore_corrupt, handle, info, cal, df, first, converted, sliced>>

\* parser: the handle is closed if parser opened it, and (data, info) is
\* returned
Return ==
    /\ pc = "tiles"
    /\ loc.i >= Len(loc.tile)
    /\ handle' = IF loc.will_close THEN "closed" ELSE handle
    /\ pc' = "done"
    /\ UNCHANGED <<file, sif_file, ignore_corrupt, pos, info, loc, data, out, cal, df, first, converted, sliced>>

\* source.parse: wavelengths = extract_calibration(info)
Resolve ==
    /\ pc = "done"
    /\ cal' = extract_calibration(info)
    /\ pc' = "resolved"
    /\ UNCHANGED <<file, sif_file, ignore_corrupt, handle, pos, info, loc, data, out, df, first, converted, sliced>>

\* data.flatten(): the samples of the frames in row-major order
Flatten(frames) == Concat([k \in 1..Len(frames) |-> Concat(frames[k])])

\* the rows of the 2D array np.column_stack makes of one argument: a 2D
\* array as it is, a 1D array as a column, None as a 1 x 1 array
Columns(c) ==
    IF c.t = "2d" THEN c.v
    ELSE IF c.t = "1d" THEN [k \in 1..Len(c.v) |-> <<c.v[k]>>]
    ELSE <<<<PyNone>>>>

\* np.column_stack((wavelengths, flat_data)): concatenation along axis 1,
\* ValueError when the numbers of rows differ
column_stack(wavelengths, flat_data) ==
    IF Len(Columns(wavelengths)) # Len(flat_data) THEN [st |-> "ValueError", v |-> <<>>]
    ELSE [st |-> "ok",
          v |-> [k \in 1..Len(flat_data) |-> Append(Columns(wavelengths)[k], flat_data[k])]]

\* source.parse: flat_data = data.flatten(); df = np.column_stack(...);
\* df.st is the exception np.column_stack raises, which leaves parse
Stack ==
    /\ pc = "resolved"
    /\ cal.st = "ok"
    /\ df' = column_stack(cal, Flatten(data.frames))
    /\ pc' = IF df'.st = "ok" THEN "parsed" ELSE "unparsed"
    /\ UNCHANGED <<file, sif_file, ignore_corrupt, handle, pos, info, loc, data, out, cal,
                   first, converted, sliced>>

\* the handle is reused: the second invocation starts where the first ended
AgainSameHandle ==
    /\ pc \in {"parsed", "unparsed"}
    /\ ~first.done /\ converted.exc = "unset"
    /\ first' = [done |-> TRUE, data |-> data, info |-> info, cal |-> cal]
    /\ handle' = IF sif_file = "stream" THEN "open" ELSE "unopened"
    /\ pc' = "call"
    /\ info' = <<>>
    /\ loc' = NoLocals
    /\ data' = NoData
    /\ out' = NoOutcome
    /\ cal' = NoCal
    /\ df' = [st |-> "unset", v |-> <<>>]
    /\ UNCHANGED <<file, sif_file, ignore_corrupt, pos, converted, sliced>>

\* a second, independent invocation of source.parse on the same bytes: a
\* new handle at position 0 and new local variables
Again ==
    /\ pc \in {"parsed", "unparsed"}
    /\ ~first.done /\ converted.exc = "unset"
    /\ first' = [done |-> TRUE, data |-> data, info |-> info, cal |-> cal]
    /\ handle' = IF sif_file = "stream" THEN "open" ELSE "unopened"
    /\ pos' = 0
    /\ pc' = "call"
    /\ info' = <<>>
    /\ loc' = NoLocals
    /\ data' = NoData
    /\ out' = NoOutcome
    /\ cal' = NoCal
    /\ df' = [st |-> "unset", v |-> <<>>]
    /\ UNCHANGED <<file, sif_file, ignore_corrupt, converted, sliced>>

\* except ValueError: only a ValueError is wrapped
WrapValueError(e) == IF e = "ValueError" THEN "RuntimeError" ELSE e

\* except Exception as e: raise RuntimeError(...)
Wrap(e) == "RuntimeError"

\* the exception that left source.parse, "none" when it returned
ParseError ==
    IF pc = "raised" THEN out.exc
    ELSE IF pc = "resolved" THEN cal.st
    ELSE IF pc = "unparsed" THEN df.st
    ELSE "none"

\* SIFconvert on a target that is a file: data, _ = source.parse(path);
\* np.column_stack((data[:, 0], data[:, 1])), or the handler
Convert ==
    /\ sif_file = "path" /\ ~ignore_corrupt /\ ~first.done /\ converted.exc = "unset"
    /\ \/ pc = "raised"
       \/ pc = "resolved" /\ cal.st # "ok"
       \/ pc \in {"parsed", "unparsed"}
    /\ converted' = IF pc = "parsed"
                    THEN [exc |-> "none", v |-> [k \in 1..Len(df.v) |-> SubSeq(df.v[k], 1, 2)]]
                    ELSE [exc |-> Wrap(ParseError), v |-> <<>>]
    /\ UNCHANGED <<file, sif_file, ignore_corrupt, handle, pos, pc, info, loc, data, out, cal,
                   df, first, sliced>>

\* SIFconvert on a target that is neither a file nor a directory: _get_paths
\* raises ValueError, which the handler wraps
ConvertMissing ==
    /\ sif_file = "path" /\ ~ignore_corrupt /\ ~first.done /\ converted.exc = "unset"
    /\ pc = "call"
    /\ converted' = [exc |-> Wrap("ValueError"), v |-> <<>>]
    /\ UNCHANGED <<file, sif_file, ignore_corrupt, handle, pos, pc, info, loc, data, out, cal,
                   df, first, sliced>>

Next ==
    \/ Call \/ Signature_ \/ Scalars \/ Detector \/ Dispatch \/ CalbVersion
    \/ Calibration \/ Counts \/ Subimages \/ Timestamps \/ Flag \/ BuildTiles
    \/ UserText \/ Allocate \/ ReadTile \/ Return \/ Resolve \/ Stack \/ Again
    \/ Convert \/ ConvertMissing

Spec == Init /\ [][Next]_vars


(***************************************************************************)
(* MATH.slice_window, called on its own.                                    *)
(***************************************************************************)
MaxLen == 12

\* remove_count = len(data) // k; data[remove_count:-remove_count]: the
\* elements remove_count .. n - remove_count - 1, and none when the stop
\* -remove_count is 0
Trim(arr, k) ==
    SubSeq(arr, Len(arr) \div k + 1,
           IF Len(arr) \div k = 0 THEN 0 ELSE Len(arr) - Len(arr) \div k)

\* the three windows the code knows, any other returns the array as it is
slice_window(arr, window) ==
    IF window = "narrow" THEN Trim(arr, 4)
    ELSE IF window = "reduced" THEN Trim(arr, 10)
    ELSE IF window = "SHG" THEN Trim(arr, 3)
    ELSE arr

SliceInit ==
    /\ file = <<>> /\ sif_file = "path" /\ ignore_corrupt = FALSE
    /\ handle = "unopened" /\ pos = 0 /\ pc = "idle" /\ info = <<>>
    /\ loc = NoLocals /\ data = NoData /\ out = NoOutcome /\ cal = NoCal
    /\ df = [st |-> "unset", v |-> <<>>]
    /\ first = [done |-> FALSE, data |-> NoData, info |-> <<>>, cal |-> NoCal]
    /\ converted = [exc |-> "unset", v |-> <<>>]
    /\ sliced \in {[data |-> [k \in 1..n |-> k], window |-> w, done |-> FALSE,
                    result |-> <<>>] :
                      n \in 0..MaxLen,
                      w \in {"narrow", "reduced", "pinched", "SHG", "wide"}}

Slice ==
    /\ ~sliced.done
    /\ sliced' = [sliced EXCEPT !.done = TRUE,
                                !.result = slice_window(sliced.data, sliced.window)]
    /\ UNCHANGED <<file, sif_file, ignore_corrupt, handle, pos, pc, info, loc, data, out,
                   cal, df, first, converted>>

SliceSpec == SliceInit /\ [][Slice]_vars

(***************************************************************************)
(* Properties.                                                              *)
(***************************************************************************)
\* the number of line ends in f[a + 1 .. b]
NewlinesIn(f, a, b) == Cardinality({k \in (a + 1)..b : f[k] = NL})

\* the number of whole lines of f after position p
LinesLeft(f, p) == NewlinesIn(f, p, Len(f))

\* the position of the n-th line end after position p (p itself for n = 0)
NthLineEnd(f, p, n) ==
    IF n = 0 THEN p
    ELSE CHOOSE q \in (p + 1)..Len(f) : f[q] = NL /\ NewlinesIn(f, p, q) = n

\* the n-th whole line after position p
NthLine(f, p, n) == SubSeq(f, NthLineEnd(f, p, n - 1) + 1, NthLineEnd(f, p, n))

\* the parts of inspect up to the version branches
BeforeDispatch == {"call", "magic", "scalars", "detector", "dispatch"}

\* inspect has returned to parser
HeaderParsed == pc \in {"allocate", "tiles", "done", "resolved", "parsed", "unparsed"}

\* parser has returned
Returned == pc \in {"done", "resolved", "parsed", "unparsed"}

\* the number of whole samples in the file from the offset of tile i
\* (i = 0, 1, ...)
SamplesAt(i) ==
    IF loc.tile[i + 1].offset >= Len(file) THEN 0
    ELSE (Len(file) - loc.tile[i + 1].offset) \div 4

\* tile i cannot be read in full
Short(i) == SamplesAt(i) < loc.width * loc.height * info["NumberOfSubImages"]

\* tile k is the first that cannot be read in full
FirstShort(k) ==
    /\ k \in 0..(Len(loc.tile) - 1)
    /\ Short(k)
    /\ \A j \in 0..(k - 1) : ~Short(j)

\* C1: a stream whose first 36 bytes are not the signature is rejected at
\* the signature, with SyntaxError (UnicodeDecodeError, a ValueError, when
\* the bytes are no UTF-8): no part after the signature check is entered, no
\* metadata field is stored and no pixel data is produced.
C1_BadSignatureRejected ==
    SubSeq(file, 1, Min(36, Len(file))) # MAGIC =>
        /\ pc \in {"call", "magic", "raised"}
        /\ info = <<>>
        /\ data = NoData
        /\ cal = NoCal
        /\ pc = "raised" => out.exc \in {"SyntaxError", "UnicodeDecodeError"} /\ pos <= 36

C1_Witness ==
    /\ SubSeq(file, 1, 36) # MAGIC
    /\ Len(file) > 36
    /\ pc = "raised"
    /\ out.exc = "SyntaxError"

\* the number of lines the claim gives for version v
SkipCount(v) ==
    IF 65548 <= v /\ v <= 65557 THEN 2
    ELSE IF v = 65558 THEN 5
    ELSE IF v \in {65559, 65564} THEN 8 + 1
    ELSE IF v = 65565 THEN 15
    ELSE IF v > 65565 THEN 8 + 1 + 9
    ELSE 0

\* C2: in every step of the version dispatcher that completes, on a stream
\* that holds the lines of its version, the cursor moves from the end of
\* the ShutterTime line over exactly 2 lines for 65548..65557, 5 for 65558,
\* 9 for 65559 and 65564, 15 for 65565, 18 for every version > 65565 and 0
\* for every other version, and stops at a line end.
C2_LinesConsumed ==
    [][(/\ pc = "dispatch"
        /\ pc' = "calb"
        /\ LinesLeft(file, pos) >= SkipCount(info["SifVersion"]))
       => /\ NewlinesIn(file, pos, pos') = SkipCount(info["SifVersion"])
          /\ pos' = NthLineEnd(file, pos, SkipCount(info["SifVersion"]))]_vars

C2_Witness ==
    /\ pc = "calb"
    /\ info["SifVersion"] = 65566
    /\ info["spectrograph"] = Shamrock
    /\ NewlinesIn(file, 0, pos) = 9 + 18

\* the versions whose branch reads the identifier
ReadsIdentifier(v) == v \in {65559, 65564} \/ v > 65565

\* C3: in every step of the version dispatcher that completes, the metadata
\* gets the key 'spectrograph': for 65559, 65564 and every version > 65565
\* its value is the second whitespace-separated word of the 9th line after
\* the ShutterTime line, for every other version the sentinel; no later part
\* of the same decode changes it, so it is there after every successful
\* header parse.
C3_Spectrograph ==
    [][/\ (pc = "dispatch" /\ pc' = "calb") =>
            /\ "spectrograph" \in DOMAIN info'
            /\ ReadsIdentifier(info["SifVersion"]) /\ LinesLeft(file, pos) >= 9 =>
                   /\ Len(Split(NthLine(file, pos, 9))) >= 2
                   /\ info'["spectrograph"] = to_string(Split(NthLine(file, pos, 9))[2]).s
            /\ ~ReadsIdentifier(info["SifVersion"]) =>
                   info'["spectrograph"] = Sentinel
       /\ (pc \notin BeforeDispatch /\ pc' \notin {"raised", "call"}) =>
            /\ "spectrograph" \in DOMAIN info'
            /\ info'["spectrograph"] = info["spectrograph"]
       /\ HeaderParsed' => "spectrograph" \in DOMAIN info']_vars

C3_Witness ==
    /\ HeaderParsed
    /\ info["SifVersion"] = 65564
    /\ info["spectrograph"] = Shamrock

\* the position after the word read at position p
WordEnd(f, p) == read_until(f, Reader(p, <<>>), SP).pos

\* C4: in every step that reads SifCalbVersion and completes, the cursor
\* stops right after the word when the value is not 65540, and exactly one
\* line end further when it is 65540, whatever SifVersion is.
C4_CalbSkip ==
    [][(pc = "calb" /\ pc' = "calibration") =>
          IF info'["SifCalbVersion"] = 65540
          THEN LinesLeft(file, WordEnd(file, pos)) >= 1 =>
                   pos' = NthLineEnd(file, WordEnd(file, pos), 1)
          ELSE pos' = WordEnd(file, pos)]_vars

C4_Witness ==
    /\ pc = "calibration"
    /\ info["SifCalbVersion"] = 65540
    /\ info["SifVersion"] = 65567
    /\ file[pos] = NL

\* C5: after a successful header parse the tile list has NumberOfFrames
\* descriptors, descriptor i (from 0) has offset
\* info['offset'] + i * width * height * NumberOfSubImages * 4, consecutive
\* offsets differ by width * height * NumberOfSubImages * 4, and the list
\* is what info['tile'] holds.
C5_TileOffsets ==
    HeaderParsed =>
        /\ Len(loc.tile) = info["NumberOfFrames"]
        /\ info["tile"] = loc.tile
        /\ \A i \in 0..(Len(loc.tile) - 1) :
              loc.tile[i + 1].offset =
                  info["offset"]
                  + i * loc.width * loc.height * info["NumberOfSubImages"] * 4
        /\ \A i \in 1..(Len(loc.tile) - 1) :
              loc.tile[i + 1].offset - loc.tile[i].offset =
                  loc.width * loc.height * info["NumberOfSubImages"] * 4
        /\ Len(loc.tile) > 0 => loc.tile[1].offset = info["offset"]

C5_Witness ==
    /\ HeaderParsed
    /\ Len(loc.tile) = 2
    /\ loc.tile[2].offset = info["offset"] + 16
    /\ info["NumberOfSubImages"] = 2

\* every tile was read in full and parser returned
AllRead == Returned /\ out.warnings = 0

\* the subimage is the whole detector, unbinned
WholeDetector ==
    /\ loc.box = <<1, info["DetectorDimensions"][2], info["DetectorDimensions"][1], 1>>
    /\ info["xbin"] = 1
    /\ info["ybin"] = 1

\* the shape and the contents of the cube when nothing was cut
FullCube ==
    /\ data.shape = <<info["NumberOfFrames"],
                      loc.height * info["NumberOfSubImages"], loc.width>>
    /\ Len(data.frames) = info["NumberOfFrames"]
    /\ \A k \in 1..Len(data.frames) :
          /\ Len(data.frames[k]) = loc.height * info["NumberOfSubImages"]
          /\ \A r \in 1..Len(data.frames[k]) : Len(data.frames[k][r]) = loc.width

C7_TruncationRaises ==
    ~ignore_corrupt =>
        /\ pc = "tiles" => \A i \in 0..(loc.i - 1) : ~Short(i)
        /\ Returned =>
              /\ \A i \in 0..(Len(loc.tile) - 1) : ~Short(i)
              /\ data.shape[1] = info["NumberOfFrames"]
              /\ Len(data.frames) = info["NumberOfFrames"]
        /\ (pc = "raised" /\ loc.i > 0) =>
              /\ FirstShort(loc.i - 1)
              /\ out.exc = "ValueError"
              /\ out.reported = <<info["NumberOfFrames"], loc.i - 1>>
              /\ Len(data.frames) = loc.i - 1

C7_Witness ==
    /\ ~ignore_corrupt
    /\ pc = "raised"
    /\ out.reported = <<2, 1>>
    /\ info["NumberOfFrames"] = 2
    /\ Short(1)

\* C8: with ignore_corrupt true, the tile loop raises nothing, and when
\* tile k is the first that cannot be read in full, parser returns a cube
\* of k < NumberOfFrames frames, the frames of the tiles before k, after at
\* least one warning.
C8_TruncationTolerated ==
    ignore_corrupt =>
        /\ pc = "raised" => loc.i = 0
        /\ Returned =>
              \A k \in 0..(Len(loc.tile) - 1) :
                  FirstShort(k) =>
                      /\ out.exc = "none"
                      /\ out.warnings >= 1
                      /\ k < info["NumberOfFrames"]
                      /\ data.shape[1] = k
                      /\ data.frames =
                            [j \in 1..k |-> Frame(file, loc.tile[j].offset, loc.size)]

C8_Witness ==
    /\ ignore_corrupt
    /\ Returned
    /\ info["NumberOfFrames"] = 2
    /\ FirstShort(1)
    /\ data.shape[1] = 1
    /\ out.warnings >= 1

\* C9: when parser is given a path, the handle it opened is closed in every
\* state in which parser has exited, by a return or by an exception.
C9_HandleClosed ==
    (sif_file = "path" /\ pc \in {"raised", "done", "resolved"}) => handle = "closed"

\* C10: extract_calibration returns a table of NumberOfFrames rows of width
\* values when Calibration_data_for_frame_1 is a key, else a table of width
\* values when Calibration_data is a key, else None, and never raises.
C10_Precedence ==
    pc = "resolved" =>
        /\ cal.st = "ok"
        /\ IF "Calibration_data_for_frame_1" \in DOMAIN info
           THEN /\ cal.t = "2d"
                /\ Len(cal.v) = info["NumberOfFrames"]
                /\ \A k \in 1..Len(cal.v) :
                      Len(cal.v[k]) = info["DetectorDimensions"][1]
           ELSE IF "Calibration_data" \in DOMAIN info
                THEN cal.t = "1d" /\ Len(cal.v) = info["DetectorDimensions"][1]
                ELSE cal.t = "None"

\* the 1D table was resolved from the stored list Calibration_data
Single == pc = "resolved" /\ cal.st = "ok" /\ cal.t = "1d"

RECURSIVE PowerSum(_, _, _)
PowerSum(c, p, k) ==
    IF k > Len(c) THEN FInt(0)
    ELSE FAdd(FMul(c[k], FInt(Pow(p, k - 1))), PowerSum(c, p, k + 1))

\* the 2D table was resolved from the per-frame keys
PerFrameResolved == pc = "resolved" /\ cal.st = "ok" /\ cal.t = "2d"

IsMechelle == "spectrograph" \in DOMAIN info /\ Contains(info["spectrograph"], Mechelle)

\* C13: when the spectrograph identifier contains 'Mechelle', decode
\* completes and the metadata holds the coefficients of the dedicated line
\* as the raw list PixelCalibration, whether or not the user text carries a
\* per-frame calibration block: a header read as far as the tile list is
\* not rejected by the user-text step, and the returned metadata has the key.
C13_MechelleDecodes ==
    IsMechelle =>
        /\ (pc = "raised" /\ "tile" \in DOMAIN info) => out.exc # "KeyError"
        /\ HeaderParsed => "PixelCalibration" \in DOMAIN info

\* C14: in every header that decodes, DetectorDimensions equals the width
\* and height computed from the subimage bounding box and the binning, the
\* dimensions that shape the pixel cube.
C14_DetectorIsTile ==
    HeaderParsed => info["DetectorDimensions"] = <<loc.width, loc.height>>

\* C15: the recorded base pixel-data offset equals the stream position at
\* which header parsing finishes, for every flag line and every SifVersion.
C15_OffsetIsCursor == pc = "tile" => loc.offset = pos

\* the files in which the numeric field b holds the text b'x'
NonNumericFiles == [b \in BadFields |-> {FileOf(in) : in \in {i \in NonNumericInputs : i.bad = b}}]

\* the step of inspect that reads each numeric field
ReadAt ==
    [b \in BadFields |->
        IF b \in {"SifVersion", "ExperimentTime", "ExposureTime"} THEN "scalars"
        ELSE IF b \in {"DetectorDimensions", "length"} THEN "detector"
        ELSE IF b = "SifCalbVersion" THEN "calb"
        ELSE IF b \in {"x0", "xbin"} THEN "subimages"
        ELSE IF b = "timestamp" THEN "timestamps"
        ELSE "counts"]

\* the steps of parser in order, as far as the timestamps
Steps == <<"call", "magic", "scalars", "detector", "dispatch", "calb", "calibration",
           "counts", "subimages", "timestamps">>

\* the steps of parser up to the one named
UpTo(step) == {Steps[k] : k \in {j \in 1..Len(Steps) : \E m \in j..Len(Steps) : Steps[m] = step}}

\* C16: when a numeric header field holds non-numeric text, decode gets no
\* further than the step that reads the field and aborts there with an error
\* (ValueError): inspect never returns, so the caller receives neither a
\* metadata record nor pixel data, and no warning is given.
C16_NonNumericAborts ==
    \A b \in BadFields :
        file \in NonNumericFiles[b] =>
            /\ pc \in UpTo(ReadAt[b]) \cup {"raised"}
            /\ pc = "raised" =>
                  /\ out = [NoOutcome EXCEPT !.exc = "ValueError"]
                  /\ data = NoData
                  /\ cal = NoCal

C16_Witness ==
    /\ file \in NonNumericFiles["timestamp"]
    /\ pc = "raised"
    /\ out.exc = "ValueError"
    /\ "ImageLength" \in DOMAIN info
    /\ "timestamp_of_0" \notin DOMAIN info

\* C17: decode terminates, with a result or with an error, on every finite
\* input stream: no cursor operation loops for ever at the end of the stream.
C17_Terminates == pc # "hang"

\* the length prefix written on the n-th line after the signature, as its
\* k-th word
Declared(n, k) == ParseInt(Split(NthLine(file, Len(MAGIC), n))[k], BytesWS).v

\* C18: a length-prefixed read that reaches the end of the stream before
\* the declared number of bytes is available fails: the header parser is
\* never handed a shorter string.  OriginalFilename is declared by the third
\* word of the fourth line after the signature, user_text by the second word
\* of the sixth.
C18_NoShortString ==
    /\ (LinesLeft(file, Len(MAGIC)) >= 4 /\ "OriginalFilename" \in DOMAIN info) =>
          Len(info["OriginalFilename"]) = Declared(4, 3)
    /\ (LinesLeft(file, Len(MAGIC)) >= 6 /\ "user_text" \in DOMAIN info) =>
          Len(info["user_text"]) = Declared(6, 2)

\* the row of the version dispatch table that v falls in
Row(v) ==
    IF 65548 <= v /\ v <= 65557 THEN 1
    ELSE IF v = 65558 THEN 2
    ELSE IF v \in {65559, 65564} THEN 3
    ELSE IF v = 65565 THEN 4
    ELSE IF v > 65565 THEN 5
    ELSE 6

\* the file f with its SifVersion token, the first word of the second line
\* after the signature, replaced by v
Twin(f, v) ==
    SubSeq(f, 1, NthLineEnd(f, Len(MAGIC), 1)) \o Dec(v)
    \o SubSeq(f, NthLineEnd(f, Len(MAGIC), 1) + 6, Len(f))

\* the versions a header is compared under
TwinVersions == Versions \cup {65568}

\* the header parse of the twin of the file under version v agrees with the
\* parse of the file itself
SameParse(r) ==
    /\ r.pos = pos
    /\ r.w = loc.offset
    /\ Del(r.info, "SifVersion") = Del(info, "SifVersion")

\* the line after the timestamps is the flag 1: it starts at the lesser of
\* the two offsets
FlagIsOne(r) ==
    ParseInt(SubSeq(file, Min(r.w, loc.offset) + 1, LineEnd(file, Min(r.w, loc.offset))),
             BytesWS) = [ok |-> TRUE, v |-> 1]

\* C19: two headers that are byte-identical after the SifVersion token and
\* whose versions fall in the same row of the dispatch table are parsed
\* alike (the same bytes consumed, the same base offset, the same metadata
\* apart from SifVersion), unless the flag line after the timestamps is 1
\* and exactly one of the two versions is 65567.
C19_RowAndFlag ==
    pc = "tile" =>
        \A v \in {w \in TwinVersions : Row(w) = Row(info["SifVersion"])} :
            \E r \in {inspect_header(Twin(file, v))} :
                /\ r.st = "ok"
                /\ \/ SameParse(r)
                   \/ /\ v # info["SifVersion"]
                      /\ 65567 \in {v, info["SifVersion"]}
                      /\ FlagIsOne(r)

C19_Witness ==
    /\ pc = "tile"
    /\ info["SifVersion"] = 65566
    /\ SubSeq(file, loc.offset + 1, pos) = <<49, NL>>
    /\ SameParse(inspect_header(Twin(file, 65568)))
    /\ ~SameParse(inspect_header(Twin(file, 65567)))

\* C19 as stated: the same row of the dispatch table gives the same parse.
C19_RowDecides ==
    pc = "tile" =>
        \A v \in {w \in TwinVersions : Row(w) = Row(info["SifVersion"])} :
            \E r \in {inspect_header(Twin(file, v))} : r.st = "ok" /\ SameParse(r)

\* the elements of the calibration table in row-major order
CalFlat == IF cal.t = "2d" THEN Concat(cal.v) ELSE cal.v

\* source.parse has paired, or failed to pair, a calibration table with a
\* pixel cube of as many elements
Matched ==
    /\ pc \in {"parsed", "unparsed"}
    /\ cal.st = "ok"
    /\ cal.t \in {"1d", "2d"}
    /\ Len(CalFlat) = Len(Flatten(data.frames))

\* C20: when the calibration table has exactly as many elements as the
\* flattened pixel cube, parse returns an array of that many rows and two
\* columns whose row k is (calibration[k], flattened_pixel[k]).
C20_Paired ==
    Matched =>
        /\ df.st = "ok"
        /\ df.v = [k \in 1..Len(CalFlat) |-> <<CalFlat[k], Flatten(data.frames)[k]>>]

\* source.parse has paired, or failed to pair, a calibration table with a
\* pixel cube of another number of elements
Mismatched ==
    /\ pc \in {"parsed", "unparsed"}
    /\ cal.st = "ok"
    /\ cal.t \in {"1d", "2d"}
    /\ Len(CalFlat) # Len(Flatten(data.frames))

\* C21: when the calibration element count differs from the element count
\* of the flattened cube, parse does not fail: it pairs the calibration with
\* the first frame, flattened.
C21_FirstFrameFallback ==
    Mismatched =>
        /\ df.st = "ok"
        /\ Len(data.frames) > 0
        /\ df.v = [k \in 1..Len(CalFlat) |-> <<CalFlat[k], Concat(data.frames[1])[k]>>]

\* the keys of the closed set that carry no index
MetadataKeys ==
    {"SifVersion", "ExperimentTime", "DetectorTemperature", "ExposureTime", "CycleTime",
     "AccumulatedCycleTime", "AccumulatedCycles", "StackCycleTime", "PixelReadoutTime",
     "GainDAC", "GateWidth", "GratingBlaze", "DetectorType", "DetectorDimensions",
     "OriginalFilename", "ShutterTime", "spectrograph", "SifCalbVersion",
     "Calibration_data", "PixelCalibration", "RamanExWavelength", "FrameAxis",
     "DataType", "ImageAxis", "NumberOfFrames", "NumberOfSubImages", "TotalLength",
     "ImageLength", "xbin", "ybin", "size", "tile", "offset"}

\* C22: the metadata record parser returns has only keys of the closed set,
\* never the working key user_text, and apart from the fixed keys and the
\* per-frame calibration keys of frames 1..NumberOfFrames it has exactly the
\* keys timestamp_of_i for i in 0..NumberOfFrames-1.
C22_ClosedKeys ==
    Returned =>
        /\ "user_text" \notin DOMAIN info
        /\ (DOMAIN info \ MetadataKeys)
              \ {FrameKey(i) : i \in 1..info["NumberOfFrames"]}
           = {TimestampKey(i) : i \in 0..(info["NumberOfFrames"] - 1)}

C22_Witness ==
    /\ Returned
    /\ info["NumberOfFrames"] = 2
    /\ {"timestamp_of_0", "timestamp_of_1", "Calibration_data_for_frame_2"} \subseteq DOMAIN info
    /\ "user_text" \notin DOMAIN info

C24_OnlyRuntimeError ==
    converted.exc # "unset" =>
        /\ converted.exc \in {"none", "RuntimeError"}
        /\ converted.exc = "RuntimeError" => converted.v = <<>>
        /\ converted.exc = "none" <=> df.st = "ok"

C24_Witness ==
    /\ pc = "raised"
    /\ out.exc = "SyntaxError"
    /\ converted = [exc |-> "RuntimeError", v |-> <<>>]

\* the divisor the documentation gives for each window
Divisor(window) == IF window = "reduced" THEN 10 ELSE IF window = "narrow" THEN 4 ELSE 3

\* C25: slice_window(data, window) returns data without its first and last
\* r = floor(n / k) entries, n = len(data), with k = 10 for 'reduced', 4 for
\* 'narrow' and 3 for 'pinched': the n - 2r entries data[r .. n-r-1], for
\* every n >= 0.
C25_SliceWindow ==
    (sliced.done /\ sliced.window \in {"reduced", "narrow", "pinched"}) =>
        sliced.result =
            SubSeq(sliced.data, Len(sliced.data) \div Divisor(sliced.window) + 1,
                   Len(sliced.data) - Len(sliced.data) \div Divisor(sliced.window))

\* the word characters: neither the terminator nor a line end
WordByte(b) == b # SP /\ b # NL

\* at position p the stream holds j terminators, then a run of n word
\* characters, then a terminator or a line end
PaddedWord(f, p, j, n) ==
    /\ p + j + n + 1 <= Len(f)
    /\ \A k \in 1..j : f[p + k] = SP
    /\ \A k \in 1..n : WordByte(f[p + j + k])
    /\ ~WordByte(f[p + j + n + 1])

\* C26: _read_until skips every leading terminator: on j >= 0 terminators,
\* a non-empty run of characters that are neither terminator nor line end,
\* and a terminator or line end, it returns exactly the run and leaves the
\* cursor just past the terminating character.  Stated of the read of
\* SifCalbVersion, which starts at the cursor.
C26_SkipsLeading ==
    pc = "calb" =>
        \A j \in 0..2, n \in 1..5 :
            PaddedWord(file, pos, j, n) =>
                /\ read_until(file, Reader(pos, info), SP).w
                       = SubSeq(file, pos + j + 1, pos + j + n)
                /\ read_until(file, Reader(pos, info), SP).pos = pos + j + n + 1

Abs(a) == IF a < 0 THEN 0 - a ELSE a

\* the quotient of a by b with its fraction dropped
Quotient(a, b) ==
    CHOOSE q \in (0 - Abs(a))..Abs(a) :
        /\ Abs(q) * Abs(b) <= Abs(a) /\ Abs(a) < (Abs(q) + 1) * Abs(b)
        /\ q > 0 => (a > 0) = (b > 0)
        /\ q < 0 => (a > 0) # (b > 0)

\* the position after n lines from position p, the last one possibly
\* ended by the end of the stream
RECURSIVE AfterLines(_, _, _)
AfterLines(f, p, n) == IF n = 0 THEN p ELSE AfterLines(f, LineEnd(f, p), n - 1)

\* the six integers after the leading word on the n-th line from position p
SixOf(f, p, n) ==
    Ints(SubSeq(Split(SubSeq(f, AfterLines(f, p, n - 1) + 1, AfterLines(f, p, n))), 2, 7)).v

\* C27: the subimage step reads x0, y1, x1, y0, ybin, xbin per subimage and
\* ends with width = (1 + x1 - x0) div xbin, height = (1 + y1 - y0) div ybin
\* (the fraction dropped when the division is not exact), size =
\* (width, height * NumberOfSubImages) and info's xbin and ybin as read, all
\* taken from the last subimage line.
C27_Geometry ==
    [][(pc = "subimages" /\ pc' = "timestamps") =>
          \E six \in {SixOf(file, pos, info["NumberOfSubImages"])} :
              /\ loc'.width = Quotient(1 + six[3] - six[1], six[6])
              /\ loc'.height = Quotient(1 + six[2] - six[4], six[5])
              /\ loc'.size = <<loc'.width, loc'.height * info["NumberOfSubImages"]>>
              /\ info'["xbin"] = six[6] /\ info'["ybin"] = six[5]
              /\ loc'.box = SubSeq(six, 1, 4)]_vars

\* two subimages, the first 4 x 2 unbinned, the last binned by 3 along x:
\* width 4 div 3 = 1, size (1, 4)
C27_Witness ==
    /\ pc = "timestamps"
    /\ info["NumberOfSubImages"] = 2
    /\ Contains(file, <<NL>> \o Dec(65538) \o <<SP>>
                      \o Join([k \in 1..6 |-> Dec(<<1, 2, 4, 1, 1, 1>>[k])]) \o <<NL>>)
    /\ loc.width = 1 /\ loc.height = 2 /\ loc.size = <<1, 4>>
    /\ info["xbin"] = 3 /\ info["ybin"] = 1

\* the user text starts with b'Calibration data for'
HasBlock(user_text) ==
    Len(user_text) >= Len(CalPrefix) /\ SubSeq(user_text, 1, Len(CalPrefix)) = CalPrefix

\* the tokens of the generic calibration line
GenericTokens(line) == Split(Strip(line, BytesWS))

\* C28: the step that ends header parsing leaves the calibration fields in
\* exactly one of three states: (a) the user text starts with 'Calibration
\* data for': every frame i in 1..NumberOfFrames has its key, holding the
\* numbers of line i of the block, and Calibration_data is None; (b)
\* otherwise, every token of the generic line is a number: Calibration_data
\* is the list of them; (c) otherwise the key Calibration_data is absent.
C28_CalibrationStates ==
    [][(pc = "user_text" /\ pc' = "allocate") =>
          IF HasBlock(info["user_text"])
          THEN /\ \A i \in 1..info["NumberOfFrames"] :
                     /\ FrameKey(i) \in DOMAIN info'
                     /\ Floats(Coefs(SplitOn(info["user_text"], NL)[i], FrameKey(i))).ok
                     /\ info'[FrameKey(i)]
                          = Floats(Coefs(SplitOn(info["user_text"], NL)[i], FrameKey(i))).v
               /\ info'["Calibration_data"] = PyNone
          ELSE /\ \A i \in 1..MaxFrames + 1 : FrameKey(i) \notin DOMAIN info'
               /\ IF Floats(GenericTokens(info["Calibration_data"].v)).ok
                  THEN info'["Calibration_data"]
                           = PyList(Floats(GenericTokens(info["Calibration_data"].v)).v)
                  ELSE "Calibration_data" \notin DOMAIN info']_vars

\* state (a) with two frames: both keys, each holding its own line
C28_Witness ==
    /\ pc = "allocate"
    /\ info["NumberOfFrames"] = 2
    /\ FrameKey(1) \in DOMAIN info /\ FrameKey(2) \in DOMAIN info
    /\ info[FrameKey(1)] = <<FInt(1), FInt(1)>>
    /\ info[FrameKey(2)] = <<FInt(2), FInt(1)>>
    /\ info["Calibration_data"] = PyNone

\* the tiles are read in increasing index order: every read is of tile
\* loc.i, at its own offset, and moves on to loc.i + 1
TilesInOrder ==
    [][(pc = "tiles" /\ loc.i < Len(loc.tile)) =>
          /\ loc'.i = loc.i + 1
          /\ pos' >= loc.tile[loc.i + 1].offset
          /\ \A k \in 1..loc.i : loc.tile[k].offset <= loc.tile[loc.i + 1].offset]_vars

\* C29: with ignore_corrupt, decoding stops at the first short tile: once a
\* tile has supplied too few samples no later tile is sought or read, so the
\* tiles attempted are the frames kept and the short one, and exactly one
\* warning is issued for the whole decode.
C29_StopsAtFirstShort ==
    (ignore_corrupt /\ out.warnings >= 1) =>
        /\ out.warnings = 1
        /\ loc.i = data.shape[1] + 1

\* outside the tile loop no step of one decode leaves the position lower
\* than it found it: the rewinds of _skip_spaces and of the flag read go
\* back to where their own step started reading
HeaderForward ==
    [][(pc \notin {"tiles", "parsed", "unparsed"}) => pos' >= pos]_vars

\* C30: the position never decreases except by a rewind to a recorded mark
\* in _skip_spaces and after the flag read; in particular the seek to a
\* tile's offset only moves the position forward: the offset of the tile
\* about to be read is not before the position.
C30_SeeksForward ==
    (pc = "tiles" /\ loc.i < Len(loc.tile)) => loc.tile[loc.i + 1].offset >= pos

====
